---- MODULE Spec2Model ----
(***************************************************************************)
(* A model of flopy4's MFArray (src/flopy4/array.py) and of MFPackage.load *)
(* (src/flopy4/package.py).                                                 *)
(*                                                                         *)
(* Text is a sequence of one-character strings, so that write(), the line  *)
(* helpers, the "^[0-9. ]+$" test of read_array and float() act on the     *)
(* characters the program sees.  A float is an exact fraction              *)
(* [n |-> numerator, d |-> denominator > 0]; NaN is the fraction with      *)
(* d = 0.  Python's None is the record None.                               *)
(***************************************************************************)
EXTENDS Integers, Sequences, FiniteSets, TLC

VARIABLES
    arr,      \* the MFArray under operation (None before construction/load)
    src,      \* how arr came to be: declared, constructed, or loaded from in
    err,      \* "" or the name of the exception the last operation raised
    last,     \* the last operation: its name, operand, the array before, result
    steps,    \* number of mutating operations applied so far
    out,      \* None, or what write() did: [err, text put in the sink]
    back,     \* None, or what MFArray.load did with out's text: [err, a]
    fin,      \* the stream MFPackage.load reads: [text, pos]
    blocks,   \* MFPackage.load's local dict, block name -> loaded block
    made,     \* the blocks the block loader returned, in order
    pkg,      \* None, or the package MFPackage.load returned
    ppc,      \* MFPackage.load's position: "idle", "scan", "return", "done",
              \* "error"
    calls,    \* the calls of a block loader MFPackage.load made, in order:
              \* the position f had at the call and the block name
    rd,       \* None, or a call of read_array(f) in progress: the text of f,
              \* the position f had at the call, its position now, the
              \* local astr, the array returned, and "loop" or "done"
    body,     \* the attributes a package class body has declared, in order
    klass     \* None, or the class MFPackageMeta.__new__ made of body

vars == <<arr, src, err, last, steps, out, back, fin, blocks, made, pkg, ppc,
          calls, rd, body, klass>>

None == [none |-> TRUE]

\* F applied to the value v: names a value that a definition uses more than
\* once
With(v, F(_)) == F(v)

----------------------------------------------------------------------------
(* Bounds of the model.                                                    *)

\* mutating operations applied to one array
MaxSteps == 2
\* in-place arithmetic is applied while every |numerator| and denominator
\* stored is at most MaxMag (keeps the fractions inside TLC's integers)
MaxMag == 12
\* fractional digits str() prints before it stops
MaxFrac == 16

----------------------------------------------------------------------------
(* Exact fractions standing for Python / NumPy floats.                     *)

Abs(x) == IF x < 0 THEN 0 - x ELSE x

RECURSIVE GCD(_, _)
GCD(a, b) == IF b = 0 THEN a ELSE GCD(b, a % b)

Sign(d) == IF d < 0 THEN 0 - 1 ELSE 1

\* the fraction n/d in lowest terms with a positive denominator
Norm(n, d) ==
    IF d = 0 THEN [n |-> 0, d |-> 0]
    ELSE With(GCD(Abs(n), Abs(d)),
              LAMBDA g : [n |-> (Sign(d) * n) \div g, d |-> (Sign(d) * d) \div g])

NaN == [n |-> 0, d |-> 0]
IsNaN(a) == a.d = 0
Q(n) == [n |-> n, d |-> 1]

Add(a, b) == IF IsNaN(a) \/ IsNaN(b) THEN NaN
             ELSE Norm(a.n * b.d + b.n * a.d, a.d * b.d)
Neg(a) == [n |-> 0 - a.n, d |-> a.d]
Sub(a, b) == Add(a, Neg(b))
Mul(a, b) == IF IsNaN(a) \/ IsNaN(b) THEN NaN ELSE Norm(a.n * b.n, a.d * b.d)
\* true division; the model never divides by zero (see Others)
Div(a, b) == IF IsNaN(a) \/ IsNaN(b) \/ b.n = 0 THEN NaN
             ELSE Norm(a.n * b.d, a.d * b.n)

RECURSIVE PowNat(_, _)
PowNat(a, k) == IF k = 0 THEN Q(1) ELSE Mul(a, PowNat(a, k - 1))
\* a ** b for the integral exponents the model uses
Pow(a, b) == IF IsNaN(a) \/ IsNaN(b) \/ b.d # 1 \/ b.n < 0 THEN NaN
             ELSE PowNat(a, b.n)

Small(a) == Abs(a.n) <= MaxMag /\ a.d <= MaxMag

----------------------------------------------------------------------------
(* Unbounded naturals as little-endian base-10000 digit sequences: the     *)
(* tolerance test of numpy.allclose multiplies three machine integers.     *)

BASE == 100 * 100

RECURSIVE BigOf(_)
BigOf(x) == IF x < BASE THEN <<x>> ELSE <<x % BASE>> \o BigOf(x \div BASE)

RECURSIVE BigAddC(_, _, _)
BigAddC(a, b, c) ==
    IF a = <<>> /\ b = <<>> THEN (IF c = 0 THEN <<>> ELSE <<c>>)
    ELSE LET x == IF a = <<>> THEN 0 ELSE Head(a)
             y == IF b = <<>> THEN 0 ELSE Head(b)
             s == x + y + c
         IN  <<s % BASE>> \o BigAddC(IF a = <<>> THEN a ELSE Tail(a),
                                     IF b = <<>> THEN b ELSE Tail(b),
                                     s \div BASE)
BigAdd(a, b) == BigAddC(a, b, 0)

RECURSIVE BigMulDigit(_, _, _)
BigMulDigit(a, m, c) ==
    IF a = <<>> THEN (IF c = 0 THEN <<>> ELSE <<c>>)
    ELSE LET s == Head(a) * m + c
         IN  <<s % BASE>> \o BigMulDigit(Tail(a), m, s \div BASE)

RECURSIVE BigMul(_, _)
BigMul(a, b) ==
    IF b = <<>> THEN <<>>
    ELSE BigAdd(BigMulDigit(a, Head(b), 0), <<0>> \o BigMul(a, Tail(b)))

RECURSIVE BigTrim(_)
BigTrim(a) == IF a # <<>> /\ a[Len(a)] = 0 THEN BigTrim(SubSeq(a, 1, Len(a) - 1))
              ELSE a

RECURSIVE BigLeqT(_, _)
\* a <= b for trimmed digit sequences of equal length, most significant last
BigLeqT(a, b) ==
    IF a = <<>> THEN TRUE
    ELSE IF a[Len(a)] # b[Len(b)] THEN a[Len(a)] < b[Len(b)]
    ELSE BigLeqT(SubSeq(a, 1, Len(a) - 1), SubSeq(b, 1, Len(b) - 1))

\* a <= b
BigLeq(a, b) ==
    IF Len(BigTrim(a)) # Len(BigTrim(b)) THEN Len(BigTrim(a)) < Len(BigTrim(b))
    ELSE BigLeqT(BigTrim(a), BigTrim(b))

----------------------------------------------------------------------------
(* numpy.allclose(values, values[0]) with its default rtol = 1e-05 and     *)
(* atol = 1e-08:  |a - b| <= atol + rtol * |b|  for every element a.       *)

RtolInv == 100000
AtolInv == 100000000

isclose(a, b) ==
    /\ ~IsNaN(a) /\ ~IsNaN(b)
    /\ \/ a = b
       \/ BigLeq(BigMul(BigOf(Abs(a.n * b.d - b.n * a.d)), BigOf(AtolInv)),
                 BigMul(BigOf(a.d),
                        BigAdd(BigOf(b.d),
                               BigMul(BigOf(AtolInv \div RtolInv), BigOf(Abs(b.n))))))

allclose(values, b) == \A i \in 1..Len(values) : isclose(values[i], b)

----------------------------------------------------------------------------
(* Characters and text.                                                    *)

UP == <<"A","B","C","D","E","F","G","H","I","J","K","L","M",
        "N","O","P","Q","R","S","T","U","V","W","X","Y","Z">>
LO == <<"a","b","c","d","e","f","g","h","i","j","k","l","m",
        "n","o","p","q","r","s","t","u","v","w","x","y","z">>
DIGITS == <<"0","1","2","3","4","5","6","7","8","9">>

NL == "\n"
IsSpace(c) == c \in {" ", NL}
IsDigit(c) == \E i \in 1..Len(DIGITS) : DIGITS[i] = c
DigitVal(c) == (CHOOSE i \in 1..Len(DIGITS) : DIGITS[i] = c) - 1

lower_char(c) == IF \E i \in 1..Len(UP) : UP[i] = c
                 THEN LO[CHOOSE i \in 1..Len(UP) : UP[i] = c] ELSE c
upper_char(c) == IF \E i \in 1..Len(LO) : LO[i] = c
                 THEN UP[CHOOSE i \in 1..Len(LO) : LO[i] = c] ELSE c
lower(s) == [i \in 1..Len(s) |-> lower_char(s[i])]
upper(s) == [i \in 1..Len(s) |-> upper_char(s[i])]

RECURSIVE Join(_, _)
\* sep.join(parts)
Join(sep, parts) ==
    IF parts = <<>> THEN <<>>
    ELSE IF Len(parts) = 1 THEN parts[1]
    ELSE parts[1] \o sep \o Join(sep, Tail(parts))

RECURSIVE LStrip(_)
LStrip(s) == IF s # <<>> /\ IsSpace(Head(s)) THEN LStrip(Tail(s)) ELSE s
RECURSIVE RStrip(_)
RStrip(s) == IF s # <<>> /\ IsSpace(s[Len(s)])
             THEN RStrip(SubSeq(s, 1, Len(s) - 1)) ELSE s
\* str.strip()
strip(s) == RStrip(LStrip(s))

RECURSIVE SplitFrom(_, _)
\* str.split(): the maximal runs of non-whitespace characters; cur is the
\* token being collected
SplitFrom(s, cur) ==
    IF s = <<>> THEN (IF cur = <<>> THEN <<>> ELSE <<cur>>)
    ELSE IF IsSpace(Head(s))
         THEN (IF cur = <<>> THEN <<>> ELSE <<cur>>) \o SplitFrom(Tail(s), <<>>)
         ELSE SplitFrom(Tail(s), Append(cur, Head(s)))
split(s) == SplitFrom(s, <<>>)

\* the index of the first character of s at or after i that starts a comment
\* (";", "#" or "!!"), or Len(s) + 1
RECURSIVE CommentAt(_, _)
CommentAt(s, i) ==
    IF i > Len(s) THEN i
    ELSE IF s[i] \in {";", "#"} THEN i
    ELSE IF s[i] = "!" /\ i < Len(s) /\ s[i + 1] = "!" THEN i
    ELSE CommentAt(s, i + 1)

\* flopy.utils.flopy_io.line_strip: drop the comment, strip, commas to spaces
CommaToSpace(t) == [i \in 1..Len(t) |-> IF t[i] = "," THEN " " ELSE t[i]]
line_strip(line) == CommaToSpace(strip(SubSeq(line, 1, CommentAt(line, 1) - 1)))

\* the index of the last character of the line that starts at pos (its
\* newline, or the last character of the text)
RECURSIVE LineEnd(_, _)
LineEnd(text, pos) ==
    IF pos >= Len(text) THEN Len(text)
    ELSE IF text[pos] = NL THEN pos ELSE LineEnd(text, pos + 1)

\* f.readline() at 1-based position pos: the line with its newline and the
\* position after it; the empty string at end of file
readline(text, pos) ==
    IF pos > Len(text) THEN [line |-> <<>>, pos |-> pos]
    ELSE With(LineEnd(text, pos),
              LAMBDA e : [line |-> SubSeq(text, pos, e), pos |-> e + 1])

RECURSIVE multi_line_strip(_, _)
\* flopy.utils.flopy_io.multi_line_strip: the next line that is not empty
\* once stripped, in lower case.  At end of file the library loops for ever:
\* eof is TRUE and the call does not return.
multi_line_strip(text, pos) ==
    IF pos > Len(text) THEN [eof |-> TRUE, line |-> <<>>, pos |-> pos]
    ELSE With(readline(text, pos), LAMBDA r :
         With(line_strip(r.line), LAMBDA l :
           IF l # <<>> THEN [eof |-> FALSE, line |-> lower(l), pos |-> r.pos]
           ELSE multi_line_strip(text, r.pos)))

----------------------------------------------------------------------------
(* float(token) and str(float).                                            *)

RECURSIVE Pow10(_)
Pow10(k) == IF k = 0 THEN 1 ELSE 10 * Pow10(k - 1)

RECURSIVE DigitsVal(_, _)
\* the value of a run of digits, acc being the value of those read so far
DigitsVal(s, acc) ==
    IF s = <<>> THEN acc ELSE DigitsVal(Tail(s), 10 * acc + DigitVal(Head(s)))

AllDigits(s) == \A i \in 1..Len(s) : IsDigit(s[i])

\* the first index of character c in s, or Len(s) + 1
RECURSIVE IndexOf(_, _, _)
IndexOf(s, c, i) ==
    IF i > Len(s) THEN i ELSE IF s[i] = c THEN i ELSE IndexOf(s, c, i + 1)

\* the decimal with integer digits ip and fractional digits fp
Decimal(ip, fp) ==
    IF ~AllDigits(ip \o fp) \/ (ip = <<>> /\ fp = <<>>)
    THEN [ok |-> FALSE, v |-> NaN]
    ELSE With(Pow10(Len(fp)), LAMBDA p :
           [ok |-> TRUE, v |-> Norm(DigitsVal(ip \o fp, 0), p)])

\* an unsigned decimal "ddd", "ddd.", ".ddd" or "ddd.ddd"
ParseDecimal(s) ==
    With(IndexOf(s, ".", 1), LAMBDA dot :
      Decimal(SubSeq(s, 1, dot - 1), SubSeq(s, dot + 1, Len(s))))

Negative(s) == s # <<>> /\ s[1] = "-"
Unsigned(s) == IF s # <<>> /\ s[1] \in {"+", "-"} THEN Tail(s) ELSE s

\* an optionally signed integer exponent
ParseExp(s) ==
    IF Unsigned(s) = <<>> \/ ~AllDigits(Unsigned(s)) THEN [ok |-> FALSE, e |-> 0]
    ELSE [ok |-> TRUE,
          e  |-> (IF Negative(s) THEN 0 - 1 ELSE 1) * DigitsVal(Unsigned(s), 0)]

\* m * 10^e
Scale10(m, e) == IF e >= 0 THEN Mul(m, Q(Pow10(e))) ELSE Mul(m, Norm(1, Pow10(0 - e)))

\* the float with mantissa m and exponent x, both parsed, negated when neg
Signed(neg, m, x) ==
    IF ~m.ok \/ ~x.ok THEN [ok |-> FALSE, v |-> NaN]
    ELSE With(Scale10(m.v, x.e), LAMBDA mag :
           [ok |-> TRUE, v |-> IF neg THEN Neg(mag) ELSE mag])

\* an unsigned token u whose exponent mark "e", if any, is at index ei
Mantissa(neg, u, ei) ==
    Signed(neg, ParseDecimal(SubSeq(u, 1, ei - 1)),
           IF ei > Len(u) THEN [ok |-> TRUE, e |-> 0]
           ELSE ParseExp(SubSeq(u, ei + 1, Len(u))))

\* Python's float(token): [sign] decimal [e [sign] digits], or nan; ok is
\* FALSE where float() raises ValueError
FloatOf(t) ==
    IF Unsigned(t) = <<"n", "a", "n">> THEN [ok |-> TRUE, v |-> NaN]
    ELSE Mantissa(Negative(t), Unsigned(t), IndexOf(Unsigned(t), "e", 1))

ParseFloat(tok) == FloatOf(lower(tok))

RECURSIVE IntStr(_)
\* the decimal digits of a natural number
IntStr(n) == IF n < 10 THEN <<DIGITS[n + 1]>>
             ELSE IntStr(n \div 10) \o <<DIGITS[(n % 10) + 1]>>

RECURSIVE FracDigits(_, _, _)
\* the digits of r/d after the point (r < d), at most k of them
FracDigits(r, d, k) ==
    IF r = 0 \/ k = 0 THEN <<>>
    ELSE <<DIGITS[((r * 10) \div d) + 1]>> \o FracDigits((r * 10) % d, d, k - 1)

RECURSIVE SciShift(_, _, _)
\* the least e with n * 10^e >= d, and that n * 10^e
SciShift(n, d, e) == IF n >= d THEN [n |-> n, e |-> e] ELSE SciShift(n * 10, d, e + 1)

\* the exponent below which repr() switches to scientific notation
SciBelow == 4

\* the digits d[.ddd]e-XX of the positive fraction a/d < 1e-04, sh being
\* SciShift(a, d, 0)
SciText(d, sh) ==
    With(FracDigits(sh.n % d, d, MaxFrac), LAMBDA md :
      IntStr(sh.n \div d) \o (IF md = <<>> THEN <<>> ELSE <<".">> \o md)
      \o <<"e", "-">> \o (IF sh.e < 10 THEN <<"0">> ELSE <<>>) \o IntStr(sh.e))

\* the digits ddd.ddd of the fraction a/d >= 0
FixText(a, d) ==
    With(FracDigits(a % d, d, MaxFrac), LAMBDA fd :
      IntStr(a \div d) \o <<".">> \o (IF fd = <<>> THEN <<"0">> ELSE fd))

\* the digits of the fraction a/d >= 0
MagText(a, d) ==
    IF a = 0 THEN FixText(a, d)
    ELSE With(SciShift(a, d, 0), LAMBDA sh :
           IF sh.e > SciBelow THEN SciText(d, sh) ELSE FixText(a, d))

\* str(x) of a float x: "-" for a negative value, the shortest decimal with
\* at least one fractional digit, or d[.ddd]e-XX below 1e-04
Str(x) ==
    IF IsNaN(x) THEN <<"n", "a", "n">>
    ELSE (IF x.n < 0 THEN <<"-">> ELSE <<>>) \o MagText(Abs(x.n), x.d)

----------------------------------------------------------------------------
(* MFArrayType and the MFArray object.                                     *)
(*                                                                         *)
(* _value is None, [t |-> "scalar", s |-> float], [t |-> "buffer",         *)
(* b |-> flat sequence of floats in row-major order] or [t |-> "layers",   *)
(* l |-> sequence of MFArray].  _how is "INTERNAL", "CONSTANT",            *)
(* "OPEN/CLOSE" or NoHow.  _path and name are None or [s |-> text].        *)

internal == "INTERNAL"
constant == "CONSTANT"
external == "OPEN/CLOSE"
\* the None that stands where an MFArrayType is expected
NoHow == "None"

S_INTERNAL == <<"I","N","T","E","R","N","A","L">>
S_CONSTANT == <<"C","O","N","S","T","A","N","T">>
S_EXTERNAL == <<"O","P","E","N","/","C","L","O","S","E">>
S_FACTOR   == <<"F","A","C","T","O","R">>
S_LAYERED  == <<"L","A","Y","E","R","E","D">>
S_IPRN     == <<"I","P","R","N">>

\* MFArrayType.to_string(how): the enum member's text
to_string(how) ==
    CASE how = internal -> S_INTERNAL
      [] how = constant -> S_CONSTANT
      [] how = external -> S_EXTERNAL

\* from_string with INTERNAL in the place of None where no member matches
from_stringLax(string) ==
    CASE upper(string) = S_CONSTANT -> constant
      [] upper(string) = S_EXTERNAL -> external
      [] OTHER -> internal

\* MFArrayType.from_string(string): the member whose text is string.upper(),
\* or None when the loop ends without a match
from_string(string) ==
    CASE upper(string) = S_INTERNAL -> internal
      [] upper(string) = S_CONSTANT -> constant
      [] upper(string) = S_EXTERNAL -> external
      [] OTHER -> NoHow

Scalar(x) == [t |-> "scalar", s |-> x]
Buffer(b) == [t |-> "buffer", b |-> b]
Layers(l) == [t |-> "layers", l |-> l]

\* MFArray.__init__: the five attributes it stores, and MFParam's name and
\* layered
MFArray(shape, array, how, factor, path, name, layered) ==
    [value |-> array, shape |-> shape, how |-> how, factor |-> factor,
     path |-> path, name |-> name, layered |-> layered]

RECURSIVE Prod(_)
\* math.prod(shape)
Prod(shape) == IF shape = <<>> THEN 1 ELSE Head(shape) * Prod(Tail(shape))

RECURSIVE Flatten(_)
Flatten(ss) == IF ss = <<>> THEN <<>> ELSE Head(ss) \o Flatten(Tail(ss))

Fill(n, x) == [i \in 1..n |-> x]

\* the error of the first element of rs that has one, or ""
FirstErr(rs) ==
    IF \E i \in 1..Len(rs) : rs[i].err # ""
    THEN rs[CHOOSE i \in 1..Len(rs) :
              rs[i].err # "" /\ \A j \in 1..(i - 1) : rs[j].err = ""].err
    ELSE ""

\* MFArray.factor of an array that is not layered: _factor, or 1.0 when it
\* is None
factor1(a) == IF a.factor = None THEN Q(1) ELSE a.factor

\* MFArray.raw of an array that is not layered: [err, shape, data]
raw1(a) ==
    IF a.value = None
    THEN [err |-> IF a.how = constant THEN "TypeError" ELSE "AttributeError",
          shape |-> a.shape, data |-> <<>>]
    ELSE IF a.how = constant
    THEN \* np.ones(self._shape) * self._value
         IF a.value.t = "scalar"
         THEN [err |-> "", shape |-> a.shape,
               data |-> Fill(Prod(a.shape), a.value.s)]
         ELSE IF Len(a.value.b) = Prod(a.shape)
         THEN [err |-> "", shape |-> a.shape, data |-> a.value.b]
         ELSE [err |-> "ValueError", shape |-> a.shape, data |-> <<>>]
    ELSE \* self._value.reshape(self._shape)
         IF a.value.t = "buffer" /\ Len(a.value.b) = Prod(a.shape)
         THEN [err |-> "", shape |-> a.shape, data |-> a.value.b]
         ELSE [err |-> IF a.value.t = "buffer" THEN "ValueError"
                       ELSE "AttributeError",
               shape |-> a.shape, data |-> <<>>]

\* np.array(arr) of the layers' arrays rs: [err, shape, data]
Stack(rs) ==
    IF FirstErr(rs) # "" THEN [err |-> FirstErr(rs), shape |-> <<>>, data |-> <<>>]
    ELSE [err |-> "",
          shape |-> <<Len(rs)>> \o (IF rs = <<>> THEN <<>> ELSE rs[1].shape),
          data |-> Flatten([i \in 1..Len(rs) |-> rs[i].data])]

\* MFArray.raw.  A layered array iterates over self._value: None cannot be
\* iterated, and the rows of an ndarray have no attribute raw
raw(a) ==
    IF a.layered
    THEN IF a.value = None
         THEN [err |-> "TypeError", shape |-> a.shape, data |-> <<>>]
         ELSE IF a.value.t # "layers"
         THEN [err |-> "AttributeError", shape |-> a.shape, data |-> <<>>]
         ELSE Stack([i \in 1..Len(a.value.l) |-> raw1(a.value.l[i])])
    ELSE raw1(a)

\* MFArray.factor
factor(a) ==
    IF a.layered THEN [i \in 1..Len(a.value.l) |-> factor1(a.value.l[i])]
    ELSE factor1(a)

\* MFArray.how
how(a) ==
    IF a.layered THEN [i \in 1..Len(a.value.l) |-> a.value.l[i].how]
    ELSE a.how

\* an ndarray times a float
Scale(data, f) == [i \in 1..Len(data) |-> Mul(data[i], f)]

\* value1 with the factor left out: the getter returning the raw data
value1Unscaled(a) ==
    IF a.value = None
    THEN [err |-> "", none |-> TRUE, shape |-> <<>>, data |-> <<>>]
    ELSE IF Len(IF a.value.t = "scalar" THEN Fill(Prod(a.shape), a.value.s)
                ELSE a.value.b) = Prod(a.shape)
    THEN [err |-> "", none |-> FALSE, shape |-> a.shape,
          data |-> IF a.value.t = "scalar" THEN Fill(Prod(a.shape), a.value.s)
                   ELSE a.value.b]
    ELSE [err |-> "ValueError", none |-> FALSE, shape |-> <<>>, data |-> <<>>]

\* MFArray.value (getter) of an array that is not layered: [err, none, shape,
\* data], none being TRUE when the getter returns None
value1(a) ==
    IF a.value = None
    THEN [err |-> "", none |-> TRUE, shape |-> <<>>, data |-> <<>>]
    ELSE IF a.how = constant
    THEN \* np.ones(self._shape) * self._value * self.factor
         IF a.value.t = "scalar"
         THEN [err |-> "", none |-> FALSE, shape |-> a.shape,
               data |-> Scale(Fill(Prod(a.shape), a.value.s), factor1(a))]
         ELSE IF Len(a.value.b) = Prod(a.shape)
         THEN [err |-> "", none |-> FALSE, shape |-> a.shape,
               data |-> Scale(a.value.b, factor1(a))]
         ELSE [err |-> "ValueError", none |-> FALSE, shape |-> <<>>, data |-> <<>>]
    ELSE \* self._value.reshape(self._shape) * self.factor
         IF a.value.t = "buffer" /\ Len(a.value.b) = Prod(a.shape)
         THEN [err |-> "", none |-> FALSE, shape |-> a.shape,
               data |-> Scale(a.value.b, factor1(a))]
         ELSE [err |-> IF a.value.t = "buffer" THEN "ValueError"
                       ELSE "AttributeError",
               none |-> FALSE, shape |-> <<>>, data |-> <<>>]

\* MFArray.value (getter)
value(a) ==
    IF a.value = None
    THEN [err |-> "", none |-> TRUE, shape |-> <<>>, data |-> <<>>]
    ELSE IF a.layered
    THEN IF a.value.t # "layers"
         THEN [err |-> "AttributeError", none |-> FALSE, shape |-> <<>>,
               data |-> <<>>]
         ELSE [none |-> FALSE] @@
              Stack([i \in 1..Len(a.value.l) |-> value1(a.value.l[i])])
    ELSE value1(a)

\* MFArray.value (setter): v is None or an ndarray [shape, data]
value_setter(a, v) ==
    IF v = None THEN [err |-> "", a |-> a]
    ELSE IF v.shape # a.shape THEN [err |-> "ValueError", a |-> a]
    ELSE [err |-> "", a |-> [a EXCEPT !.value = Buffer(v.data)]]

----------------------------------------------------------------------------
(* Index assignment and in-place arithmetic.                               *)

\* the first and last flat index of the region key addresses in an ndarray
\* of the given shape.  key is [k |-> "all"] (a[:]) or [k |-> "index",
\* i |-> i] (a[i], 0-based, on the first axis)
Lo(shape, key) == IF key.k = "all" THEN 1 ELSE key.i * Prod(Tail(shape)) + 1
Hi(shape, key) == IF key.k = "all" THEN Prod(shape) ELSE (key.i + 1) * Prod(Tail(shape))

\* values[key] = val on an ndarray [shape, data]; val is Scalar(x),
\* broadcast over the region, or Buffer(b) of the region's size
Assign(shape, data, key, val) ==
    IF key.k = "index" /\ key.i >= Head(shape)
    THEN [err |-> "IndexError", data |-> data]
    ELSE IF val.t = "buffer" /\ Len(val.b) # Hi(shape, key) - Lo(shape, key) + 1
    THEN [err |-> "ValueError", data |-> data]
    ELSE [err |-> "",
          data |-> [j \in 1..Len(data) |->
                      IF j < Lo(shape, key) \/ j > Hi(shape, key) THEN data[j]
                      ELSE IF val.t = "scalar" THEN val.s
                      ELSE val.b[j - Lo(shape, key) + 1]]]

\* Collapse with exact equality in the place of numpy.allclose
CollapseExact(a, values) ==
    IF a.how = constant
    THEN IF \E i \in 1..Len(values) : values[i] # values[1]
         THEN [a EXCEPT !.how = internal, !.value = Buffer(values)]
         ELSE [a EXCEPT !.value = Scalar(values[1])]
    ELSE [a EXCEPT !.value = Buffer(values)]

\* MFArray.__setitem__ on an array that is not layered, after
\* values[key] = value has given `values` (flat): the Constant-collapse
\* policy
Collapse(a, values) ==
    IF a.how = constant
    THEN IF ~allclose(values, values[1])
         THEN [a EXCEPT !.how = internal, !.value = Buffer(values)]
         ELSE [a EXCEPT !.value = Scalar(values[1])]
    ELSE [a EXCEPT !.value = Buffer(values)]

\* MFArray.__setitem__ on an array that is not layered: [err, a]
setitem1(a, key, val) ==
    With(raw1(a), LAMBDA r :
      IF r.err # "" THEN [err |-> r.err, a |-> a]
      ELSE With(Assign(r.shape, r.data, key, val), LAMBDA w :
             IF w.err # "" THEN [err |-> w.err, a |-> a]
             ELSE [err |-> "", a |-> Collapse(a, w.data)]))

\* for ix, mfa in enumerate(self._value): mfa[:] = values[ix]
SetLayers(a, values) ==
    [a EXCEPT !.value = Layers(
       [ix \in 1..Len(a.value.l) |->
          setitem1(a.value.l[ix], [k |-> "all"],
                   Buffer(SubSeq(values, (ix - 1) * Prod(Tail(a.shape)) + 1,
                                 ix * Prod(Tail(a.shape))))).a])]

\* MFArray.__setitem__: [err, a]
__setitem__(a, key, val) ==
    IF a.layered
    THEN With(raw(a), LAMBDA r :
           IF r.err # "" THEN [err |-> r.err, a |-> a]
           ELSE With(Assign(r.shape, r.data, key, val), LAMBDA w :
                  IF w.err # "" THEN [err |-> w.err, a |-> a]
                  ELSE [err |-> "", a |-> SetLayers(a, w.data)]))
    ELSE setitem1(a, key, val)

\* The arithmetic a Python in-place operator symbol performs on one float
Arith(sym, x, other) ==
    CASE sym = "+=" -> Add(x, other)
      [] sym = "-=" -> Sub(x, other)
      [] sym = "*=" -> Mul(x, other)
      [] sym = "/=" -> Div(x, other)
      [] sym = "**=" -> Pow(x, other)

\* self._value <sym>= other on an array that is not layered: [err, a]
InPlace(a, sym, other) ==
    IF a.value = None THEN [err |-> "TypeError", a |-> a]
    ELSE IF a.value.t = "scalar"
    THEN [err |-> "", a |-> [a EXCEPT !.value = Scalar(Arith(sym, a.value.s, other))]]
    ELSE [err |-> "",
          a |-> [a EXCEPT !.value =
                   Buffer([i \in 1..Len(a.value.b) |->
                             Arith(sym, a.value.b[i], other)])]]

\* The statement each method of NumPyArrayMixin runs on self._value when the
\* array is not layered
FlatSym(op) ==
    CASE op = "__iadd__" -> "+="
      [] op = "__imul__" -> "*="
      [] op = "__isub__" -> "-="
      [] op = "__itruediv__" -> "/="
      [] op = "__ifloordiv__" -> "/="
      [] op = "__ipow__" -> "**="

\* The statement each method runs on every layer when the array is layered
LayerSym(op) ==
    CASE op = "__iadd__" -> "+="
      [] op = "__imul__" -> "*="
      [] op = "__isub__" -> "-="
      [] op = "__itruediv__" -> "/="
      [] op = "__ifloordiv__" -> "/="
      [] op = "__ipow__" -> "/="

\* The method a statement  mfa <sym>= other  calls on a layer
MethodOf(sym) ==
    CASE sym = "+=" -> "__iadd__"
      [] sym = "*=" -> "__imul__"
      [] sym = "-=" -> "__isub__"
      [] sym = "/=" -> "__itruediv__"

\* the position of the first result with an error, or Len(rs) + 1
FirstErrAt(rs) ==
    IF FirstErr(rs) = "" THEN Len(rs) + 1
    ELSE CHOOSE i \in 1..Len(rs) :
           rs[i].err # "" /\ \A j \in 1..(i - 1) : rs[j].err = ""

\* NumPyArrayMixin.__iadd__ .. __ipow__: [err, a].  A layered array iterates
\* over self._value: its layers, up to the first that raises, or the rows of
\* an ndarray that the value setter put there, which NumPy updates in place
\* (the elements of a rank-1 ndarray are floats, which the loop leaves alone).
iop(a, op, other) ==
    IF a.layered
    THEN IF a.value = None THEN [err |-> "TypeError", a |-> a]
         ELSE IF a.value.t = "buffer"
         THEN [err |-> "",
               a |-> IF Len(a.shape) = 1 THEN a
                     ELSE [a EXCEPT !.value =
                             Buffer([i \in 1..Len(a.value.b) |->
                                       Arith(LayerSym(op), a.value.b[i], other)])]]
         ELSE \* for mfa in self._value: mfa <sym>= other
              With([i \in 1..Len(a.value.l) |->
                      InPlace(a.value.l[i], FlatSym(MethodOf(LayerSym(op))),
                              other)],
                   LAMBDA rs :
                     [err |-> FirstErr(rs),
                      a   |-> [a EXCEPT !.value =
                                 Layers([i \in 1..Len(rs) |->
                                           IF i <= FirstErrAt(rs) THEN rs[i].a
                                           ELSE a.value.l[i]])]])
    ELSE InPlace(a, FlatSym(op), other)

\* NumPyArrayMixin.__add__ .. __pow__: the in-place method whose statements
\* each of them runs, line for line
Twin(op) ==
    CASE op = "__add__" -> "__iadd__"
      [] op = "__mul__" -> "__imul__"
      [] op = "__sub__" -> "__isub__"
      [] op = "__truediv__" -> "__itruediv__"
      [] op = "__floordiv__" -> "__ifloordiv__"
      [] op = "__pow__" -> "__ipow__"

\* a <op> other: [err, a, res], a being self after the call and res the
\* value of the expression, which is self
binop(a, op, other) ==
    With(iop(a, Twin(op), other), LAMBDA r :
      [err |-> r.err, a |-> r.a, res |-> IF r.err = "" THEN r.a ELSE None])

----------------------------------------------------------------------------
(* MFArray.write.                                                          *)

PAD == <<" ", " ">>
PAD2 == PAD \o PAD
PAD3 == PAD \o PAD \o PAD

\* " ".join(str(x) for x in row)
RowText(row) == Join(<<" ">>, [i \in 1..Len(row) |-> Str(row[i])])

\* row i (1-based) of the rows of length n of a flat buffer
Row(data, n, i) == SubSeq(data, (i - 1) * n + 1, i * n)

\* the text v that write builds for a rank-2 array:
\* f"\n{PAD*3}".join(" ".join(str(x) for x in y) for y in values)
Body2(shape, data) ==
    Join(<<NL>> \o PAD3,
         [i \in 1..shape[1] |-> RowText(Row(data, shape[2], i))])

\* the text v that write builds for a rank-3 array: PAD*3, then for each
\* values[i] the " ".join of "\n" + PAD*3 + row
Body3(shape, data) ==
    PAD3 \o Flatten(
      [i \in 1..shape[1] |->
         Join(<<" ">>,
              [j \in 1..shape[2] |->
                 <<NL>> \o PAD3 \o
                 RowText(Row(data, shape[3], (i - 1) * shape[2] + j))])])

\* f" FACTOR {self._factor}" when self._factor is truthy
FactorText(a) ==
    IF a.factor = None \/ a.factor.n = 0 THEN <<>>
    ELSE <<" ">> \o S_FACTOR \o <<" ">> \o Str(a.factor)

\* str(self._value) of a Constant array that holds None or a float
ValueText(a) ==
    IF a.value = None THEN <<"N","o","n","e">> ELSE Str(a.value.s)

\* str(self._path)
PathText(a) == IF a.path = None THEN <<"N","o","n","e">> ELSE a.path.s

\* the variable v of write for an INTERNAL array; lead and trail are what
\* the rank-1 branch puts before and after the joined values
InternalText(r, lead, trail) ==
    IF Len(r.shape) = 1 THEN lead \o RowText(r.data) \o trail
    ELSE IF Len(r.shape) = 2 THEN Body2(r.shape, r.data)
    ELSE Body3(r.shape, r.data)

\* the variable lines of write for an array that is not INTERNAL
OtherText(a) ==
    IF a.how = external THEN to_string(a.how) \o <<" ">> \o PathText(a) \o <<NL>>
    ELSE to_string(a.how) \o <<" ">> \o ValueText(a) \o <<NL>>

\* MFArray.write, the branch for an array that is not layered, values being
\* self.raw: [err, text]
writeFlat(a, r) ==
    IF r.err # "" THEN [err |-> r.err, text |-> <<>>]
    ELSE IF a.how \in {internal, external, constant} /\ a.name = None
    THEN [err |-> "AttributeError", text |-> <<>>]
    ELSE IF a.how = NoHow \/ (a.how = internal /\ Len(r.shape) \notin {1, 2, 3})
    THEN [err |-> "UnboundLocalError", text |-> <<>>]
    ELSE IF a.how = internal
    THEN [err |-> "",
          text |-> PAD \o upper(a.name.s) \o <<NL>> \o PAD2 \o
                   to_string(a.how) \o FactorText(a) \o
                   InternalText(r, <<NL>> \o PAD3, <<>>) \o <<NL>>]
    ELSE [err |-> "",
          text |-> PAD \o upper(a.name.s) \o <<NL>> \o PAD2 \o OtherText(a)]

\* MFArray.write, the text one layer mfa adds, values being mfa.raw:
\* [err, text]
writeLayer(mfa, r) ==
    IF r.err # "" THEN [err |-> r.err, text |-> <<>>]
    ELSE IF mfa.how = NoHow \/ (mfa.how = internal /\ Len(r.shape) \notin {1, 2, 3})
    THEN [err |-> "UnboundLocalError", text |-> <<>>]
    ELSE IF mfa.how = internal
    THEN [err |-> "",
          text |-> PAD2 \o to_string(mfa.how) \o FactorText(mfa) \o
                   <<NL>> \o PAD3 \o InternalText(r, PAD3, <<NL>>) \o <<NL>>]
    ELSE [err |-> "", text |-> PAD2 \o OtherText(mfa)]

RECURSIVE writeLayers(_, _)
\* the loop over the layers: what is written up to the first error
writeLayers(ls, acc) ==
    IF ls = <<>> THEN [err |-> "", text |-> acc]
    ELSE With(writeLayer(Head(ls), raw1(Head(ls))), LAMBDA w :
           IF w.err # "" THEN [err |-> w.err, text |-> acc]
           ELSE writeLayers(Tail(ls), acc \o w.text))

\* MFArray.write(f): [err, text], text being what reached the sink
write(a) ==
    IF a.layered
    THEN IF a.name = None THEN [err |-> "AttributeError", text |-> <<>>]
         ELSE IF a.value = None
         THEN [err |-> "TypeError",
               text |-> PAD \o upper(a.name.s) \o <<" ">> \o S_LAYERED \o <<NL>>]
         ELSE IF a.value.t # "layers"
         THEN [err |-> "AttributeError",
               text |-> PAD \o upper(a.name.s) \o <<" ">> \o S_LAYERED \o <<NL>>]
         ELSE writeLayers(a.value.l,
                          PAD \o upper(a.name.s) \o <<" ">> \o S_LAYERED \o <<NL>>)
    ELSE writeFlat(a, raw1(a))

----------------------------------------------------------------------------
(* MFArray.load, MFArray._load and MFArray.read_array.                     *)

Some(t) == [s |-> t]

\* The files an OPEN/CLOSE path can name, relative to cwd: open(cwd / path)
\* gives the file's text, or raises FileNotFoundError
F_DATA == <<"d", ".", "t", "x", "t">>
FileText(path) ==
    IF path = F_DATA
    THEN [err |-> "", text |-> <<"1", ".", "0", " ", "2", ".", "0", NL>>]
    ELSE [err |-> "FileNotFoundError", text |-> <<>>]

\* re.match("^[0-9. ]+$", line)
NumericLine(line) ==
    /\ line # <<>>
    /\ \A i \in 1..Len(line) : IsDigit(line[i]) \/ line[i] \in {".", " "}

RECURSIVE ReadLines(_, _, _)
\* the loop of read_array: the stripped lines collected, and the position
\* the stream is left at (the start of the first line that does not match)
ReadLines(text, pos, astr) ==
    With(readline(text, pos), LAMBDA r :
      IF ~NumericLine(line_strip(r.line)) THEN [astr |-> astr, pos |-> pos]
      ELSE ReadLines(text, r.pos, Append(astr, line_strip(r.line))))

\* np.genfromtxt(StringIO(text)).ravel() of a text whose tokens are toks:
\* one float per token (nan, the v of ParseFloat, for a token that is
\* no float), the empty array for no token
genfromtxt(toks) == [i \in 1..Len(toks) |-> ParseFloat(toks[i]).v]

\* MFArray.read_array(f): [array, pos]
read_array(text, pos) ==
    With(ReadLines(text, pos, <<>>), LAMBDA r :
      [array |-> genfromtxt(split(Join(<<" ">>, r.astr))), pos |-> r.pos])

\* read_array without the rewind: the stream stays after the line read
RewindNever(pos, next, match) == next

\* pos = f.tell() before the line is read and f.seek(pos, 0) when the line
\* does not match: the position one turn of read_array's loop leaves the
\* stream at, next being the position after the line
Rewind(pos, next, match) == IF match THEN next ELSE pos

\* one turn of read_array's loop with f at pos: whether the line matched,
\* the stripped line, and the position the stream is left at
Turn(text, pos) ==
    With(readline(text, pos), LAMBDA r :
      With(line_strip(r.line), LAMBDA l :
        With(NumericLine(l), LAMBDA m :
          [match |-> m, line |-> l, pos |-> Rewind(pos, r.pos, m)])))

\* list.index(t) as a 1-based index, or 0 when t is not in the list
TokIndex(toks, t) ==
    IF \E i \in 1..Len(toks) : toks[i] = t
    THEN CHOOSE i \in 1..Len(toks) : toks[i] = t /\ \A j \in 1..(i - 1) : toks[j] # t
    ELSE 0

\* list.pop(i) at 1-based index i
Pop(toks, i) == SubSeq(toks, 1, i - 1) \o SubSeq(toks, i + 1, Len(toks))

\* lines 483-486 of _load: the control line without its print-control pair,
\* idx being the pair's index or 0: [err, cl]
PopIprn(cl, idx) ==
    IF idx = 0 THEN [err |-> "", cl |-> cl]
    ELSE IF idx + 1 > Len(cl) THEN [err |-> "IndexError", cl |-> cl]
    ELSE [err |-> "", cl |-> Pop(Pop(cl, idx + 1), idx)]

Failed(e, pos) == [err |-> e, a |-> None, pos |-> pos]

\* lines 509-520 of _load: the factor, then the constructor
Finish(shape, name, cl, hw, array, path, clpos, pos) ==
    IF Len(cl) <= 2
    THEN [err |-> "", a |-> MFArray(shape, array, hw, None, path, name, FALSE),
          pos |-> pos]
    ELSE IF clpos + 2 > Len(cl) THEN Failed("IndexError", pos)
    ELSE With(ParseFloat(cl[clpos + 2]), LAMBDA x :
           IF ~x.ok THEN Failed("ValueError", pos)
           ELSE [err |-> "",
                 a |-> MFArray(shape, array, hw, x.v, path, name, FALSE),
                 pos |-> pos])

\* lines 492-507 of _load: the branch of the variant hw, f being at pos
Variant(text, pos, shape, name, cl, hw) ==
    IF hw = internal
    THEN With(read_array(text, pos), LAMBDA ra :
           Finish(shape, name, cl, hw, Buffer(ra.array), None, 1, ra.pos))
    ELSE IF hw \in {constant, external} /\ Len(cl) < 2
    THEN Failed("IndexError", pos)
    ELSE IF hw = constant
    THEN With(ParseFloat(cl[2]), LAMBDA x :
           IF ~x.ok THEN Failed("ValueError", pos)
           ELSE Finish(shape, name, cl, hw, Scalar(x.v), None, 2, pos))
    ELSE IF hw = external
    THEN With(FileText(cl[2]), LAMBDA ft :
           IF ft.err # "" THEN Failed(ft.err, pos)
           ELSE Finish(shape, name, cl, hw, Buffer(read_array(ft.text, 1).array),
                       Some(cl[2]), 2, pos))
    ELSE Failed("NotImplementedError", pos)

\* lines 483-488 of _load, p being the control line PopIprn gives
Control(text, pos, shape, name, p) ==
    IF p.err # "" THEN Failed(p.err, pos)
    ELSE IF p.cl = <<>> THEN Failed("IndexError", pos)
    ELSE Variant(text, pos, shape, name, p.cl, from_string(p.cl[1]))

\* MFArray._load(f, cwd, shape, **kwargs) with f at pos and kwargs holding
\* name (or nothing, name = None): [err, a, pos].  err "NoReturn" stands for
\* multi_line_strip never returning at end of file.
_load(text, pos, shape, name) ==
    With(multi_line_strip(text, pos), LAMBDA m :
      IF m.eof THEN Failed("NoReturn", m.pos)
      ELSE Control(text, m.pos, shape, name,
                   PopIprn(split(m.line), TokIndex(split(m.line), lower(S_IPRN)))))

RECURSIVE LoadLayers(_, _, _, _, _)
\* the loop of MFArray.load over range(nlay): objs collected so far
LoadLayers(text, pos, lshp, k, objs) ==
    IF k = 0 THEN [err |-> "", objs |-> objs, pos |-> pos]
    ELSE With(_load(text, pos, lshp, None), LAMBDA r :
           IF r.err # "" THEN [err |-> r.err, objs |-> objs, pos |-> r.pos]
           ELSE LoadLayers(text, r.pos, lshp, k - 1, Append(objs, r.a)))

\* lines 427-477 of load, tokens being the header line's
Header(text, pos, shape, hint, tokens) ==
    IF hint \/ (Len(tokens) > 1 /\ tokens[2] = lower(S_LAYERED))
    THEN With(LoadLayers(text, pos, Tail(shape), Head(shape), <<>>), LAMBDA ls :
           IF ls.err # "" THEN Failed(ls.err, ls.pos)
           ELSE [err |-> "",
                 a   |-> MFArray(shape, Layers(ls.objs), NoHow, None, None,
                                 Some(tokens[1]), TRUE),
                 pos |-> ls.pos])
    ELSE _load(text, pos, shape, Some(tokens[1]))

\* MFArray.load(f, cwd, shape, header=True, layered=hint) with f at pos and
\* a shape that is a tuple of integers: [err, a, pos]
load(text, pos, shape, hint) ==
    With(multi_line_strip(text, pos), LAMBDA m :
      IF m.eof THEN Failed("NoReturn", m.pos)
      ELSE Header(text, m.pos, shape, hint, split(m.line)))

----------------------------------------------------------------------------
(* MFBlock.load, as section 4.3 of the specification describes the block   *)
(* loader, and MFPackage.load.                                             *)

S_BEGIN == <<"B","E","G","I","N">>
S_END   == <<"E","N","D">>

\* flopy4.utils.strip: the line without comment, stripped, commas as spaces
utils_strip(line) == line_strip(line)

\* the parameter names a block declares
ParamNames == {<<"f","i","r","s","t">>, <<"f","r","e","q","u","e","n","c","y">>}

\* the index n of a block
Index(n) == [i |-> n]

\* a Block: its name, its index (None when the BEGIN line has none) and the
\* names of the parameters read for it, in file order
Block(name, index, params) == [name |-> name, index |-> index, params |-> params]

RECURSIVE InBlock(_, _, _)
\* the loader's state IN_BLOCK on the block blk, the stream being at pos
InBlock(text, pos, blk) ==
    IF pos > Len(text) THEN [err |-> "EOFError", block |-> None, pos |-> pos]
    ELSE With(readline(text, pos), LAMBDA r :
         With(split(lower(utils_strip(r.line))), LAMBDA words :
           IF words = <<>> THEN InBlock(text, r.pos, blk)
           ELSE IF words[1] = lower(S_END)
           THEN [err |-> "", block |-> blk, pos |-> r.pos]
           ELSE IF words[1] \notin ParamNames
           THEN [err |-> "UnrecognizedParameter", block |-> None, pos |-> r.pos]
           ELSE InBlock(text, r.pos,
                        [blk EXCEPT !.params = Append(blk.params, words[1])])))

RECURSIVE SeekingBegin(_, _)
\* the loader's state SEEKING_BEGIN, the stream being at pos
SeekingBegin(text, pos) ==
    IF pos > Len(text) THEN [err |-> "EOFError", block |-> None, pos |-> pos]
    ELSE With(readline(text, pos), LAMBDA r :
         With(split(lower(utils_strip(r.line))), LAMBDA words :
           IF words = <<>> \/ words[1] # lower(S_BEGIN) \/ Len(words) < 2
           THEN SeekingBegin(text, r.pos)
           ELSE InBlock(text, r.pos,
                        Block(words[2],
                              IF Len(words) > 2 /\ AllDigits(words[3])
                              THEN Index(DigitsVal(words[3], 0)) ELSE None,
                              <<>>))))

\* MFBlock.load(f) with f at pos: [err, block, pos]
BlockLoad(text, pos) == SeekingBegin(text, pos)

\* cls.blocks of the package class: the names of the blocks it declares
W_PERIOD  == <<"P","E","R","I","O","D">>
W_OPTIONS == <<"O","P","T","I","O","N","S">>
W_NOTES   == <<"N","O","T","E","S">>
members == {lower(W_PERIOD), lower(W_OPTIONS)}

\* a dict: d[k] = v
Put(d, k, v) == [n \in DOMAIN d \cup {k} |-> IF n = k THEN v ELSE d[n]]

\* lines 131-136 of MFPackage.load: the line at pos, whose words are words,
\* begins with "begin"; ends is the position after the line: [err, blocks,
\* made, pos, call], call being None or the call of the block loader made
Begin(text, pos, ends, words, dict, got) ==
    IF Len(words) < 2
    THEN [err |-> "IndexError", blocks |-> dict, made |-> got, pos |-> ends,
          call |-> None]
    ELSE IF words[2] \notin members
    THEN [err |-> "", blocks |-> dict, made |-> got, pos |-> ends,
          call |-> None]
    ELSE With(BlockLoad(text, pos), LAMBDA b :
           IF b.err # ""
           THEN [err |-> b.err, blocks |-> dict, made |-> got, pos |-> b.pos,
                 call |-> [at |-> pos, name |-> words[2]]]
           ELSE [err |-> "", blocks |-> Put(dict, words[2], b.block),
                 made |-> Append(got, b.block), pos |-> b.pos,
                 call |-> [at |-> pos, name |-> words[2]]])

\* lines 128-136 of MFPackage.load, for a line that is neither "" nor "\n"
Words(text, pos, ends, words, dict, got) ==
    IF words = <<>>
    THEN [err |-> "IndexError", blocks |-> dict, made |-> got, pos |-> ends,
          call |-> None]
    ELSE IF words[1] = lower(S_BEGIN)
    THEN Begin(text, pos, ends, words, dict, got)
    ELSE [err |-> "", blocks |-> dict, made |-> got, pos |-> ends,
          call |-> None]

----------------------------------------------------------------------------
(* MFPackageMeta.__new__: the parameters and the blocks of a package class. *)

\* an MFParam declared in a class body for the block block; its name is
\* set by the metaclass
MFParam(block) == [param |-> TRUE, name |-> None, block |-> block]

\* get_block: the block block_name of the package, holding params (the
\* name of the class made for it is left out)
get_block(pkg_name, block_name, params) == [name |-> block_name, params |-> params]

RECURSIVE Harvest(_, _)
\* lines 31-36: the dict params, attribute name -> parameter, of the
\* attributes that are parameters, each given its attribute name
Harvest(attrs, params) ==
    IF attrs = <<>> THEN params
    ELSE IF Head(attrs).attr.param
    THEN Harvest(Tail(attrs),
                 Append(params, [Head(attrs).attr EXCEPT !.name = Head(attrs).attr_name]))
    ELSE Harvest(Tail(attrs), params)

RECURSIVE groupby(_)
\* itertools.groupby(values, lambda p: p.block): a group for every run of
\* successive values of one key, in order
groupby(values) ==
    IF values = <<>> THEN <<>>
    ELSE With(groupby(Tail(values)), LAMBDA g :
           IF g # <<>> /\ Head(g).key = Head(values).block
           THEN <<[key |-> Head(values).block,
                   group |-> <<Head(values)>> \o Head(g).group]>> \o Tail(g)
           ELSE <<[key |-> Head(values).block, group |-> <<Head(values)>>]>> \o g)

\* {p.name: p for p in block}
ByName(block) == [n \in { block[i].name : i \in 1..Len(block) } |->
                    CHOOSE q \in { block[i] : i \in 1..Len(block) } : q.name = n]

RECURSIVE MFBlocks(_, _, _)
\* lines 38-50: the dict comprehension over the groups, a later group of a
\* key replacing an earlier one
MFBlocks(pkg_name, groups, d) ==
    IF groups = <<>> THEN d
    ELSE MFBlocks(pkg_name, Tail(groups),
                  Put(d, Head(groups).key,
                      get_block(pkg_name, Head(groups).key,
                                ByName(Head(groups).group))))

\* MFPackageMeta.__new__(cls, clsname, bases, attrs): the attributes params
\* and blocks of the class
PackageClass(clsname, attrs) ==
    With(Harvest(attrs, <<>>), LAMBDA params :
      [params |-> ByName(params),
       blocks |-> MFBlocks(clsname, groupby(params), [n \in {} |-> None])])

----------------------------------------------------------------------------
(* Inputs.                                                                 *)

W_A     == <<"A">>
W_BOGUS == <<"B","O","G","U","S">>
W_NOFILE == <<"n", "o", ".", "t", "x", "t">>
N_1  == <<"1">>
N_10 == <<"1", ".", "0">>
N_20 == <<"2", ".", "0">>
N_05 == <<"0", ".", "5">>

\* one line of input: the indentation, the words space-joined, a newline
Line(indent, words) == indent \o Join(<<" ">>, words) \o <<NL>>

\* the lines of the rows, each a sequence of words
Lines(indent, rows) == Flatten([i \in 1..Len(rows) |-> Line(indent, rows[i])])

\* 1.00001: unequal to 1.0, and within numpy.allclose's tolerance of it
Near == Norm(100001, 100000)

\* the operands of the in-place operators (nonzero, so no division by zero)
Others == {Q(2), Q(3)}

\* the floats the arrays under mutation are built from
Vals == {Q(1), Q(2)}

\* the floats the arrays that are written are built from
AnyVals == {Q(1), Q(2), Q(0 - 1), Norm(1, 2), Norm(1, 100000)}

\* the factors arrays are built with (None: no factor)
Factors == {None, Q(2)}

\* every flat buffer of n floats of S
Buffers(n, S) == [1..n -> S]

\* the arrays under mutation: Constant and Internal, of rank 1 and 2
Arrays ==
    { MFArray(shape, Scalar(x), constant, fac, None, Some(W_A), FALSE) :
        shape \in {<<2>>, <<2, 2>>}, x \in Vals, fac \in Factors }
    \cup
    { MFArray(<<2>>, Buffer(b), internal, fac, None, Some(W_A), FALSE) :
        b \in Buffers(2, Vals), fac \in Factors }
    \cup
    { MFArray(<<2, 2>>, Buffer(b), internal, fac, None, Some(W_A), FALSE) :
        b \in Buffers(4, Vals), fac \in Factors }

\* the arrays that are written: Constant and Internal, of rank 1, 2 and 3,
\* of either sign and of small magnitude
AnyArrays ==
    { MFArray(shape, Scalar(x), constant, fac, None, Some(W_A), FALSE) :
        shape \in {<<2>>, <<2, 2>>, <<2, 1, 2>>}, x \in AnyVals, fac \in Factors }
    \cup
    { MFArray(<<2>>, Buffer(b), internal, fac, None, Some(W_A), FALSE) :
        b \in Buffers(2, AnyVals), fac \in Factors }
    \cup
    { MFArray(shape, Buffer(b), internal, fac, None, Some(W_A), FALSE) :
        shape \in {<<2, 2>>, <<2, 1, 2>>}, b \in Buffers(4, Vals),
        fac \in Factors }

\* the words of the control line " <VARIANT> <arg> [FACTOR 2.0]"
Ctl(variant, fac) ==
    <<variant>>
    \o (IF variant = S_CONSTANT THEN <<N_10>>
        ELSE IF variant = S_EXTERNAL THEN <<F_DATA>> ELSE <<>>)
    \o (IF fac THEN <<S_FACTOR, N_20>> ELSE <<>>)

LowerAll(words) == [i \in 1..Len(words) |-> lower(words[i])]

\* the rows an INTERNAL control line is followed by
Body(variant, rows) == IF variant = S_INTERNAL THEN rows ELSE <<>>

\* an input of MFArray.load: the text of a header line and, for each control
\* line, that line and the rows after it; ctl keeps the control lines' words
Input(header, shape, hint, ctls, bodies) ==
    [text  |-> Line(PAD, header) \o
               Flatten([k \in 1..Len(ctls) |->
                          Line(PAD2, ctls[k]) \o Lines(PAD3, bodies[k])]),
     shape |-> shape, hint |-> hint, ctl |-> ctls]

Variants == {S_INTERNAL, S_CONSTANT, S_EXTERNAL}

\* arrays that are not layered, of shape (2,): each variant, with and
\* without a factor, in both cases of the keywords
PlainInputs ==
    { Input(<<W_A>>, <<2>>, FALSE,
            <<IF low THEN LowerAll(Ctl(v, fac)) ELSE Ctl(v, fac)>>,
            <<Body(v, <<<<N_10, N_20>>>>)>>) :
      v \in Variants, fac \in BOOLEAN, low \in BOOLEAN }

\* layered arrays of shape (2, 2): every pair of variants, one of the layers
\* with a factor, announced by the header or by the caller's hint
LayeredInputs ==
    { Input(IF hint THEN <<W_A>> ELSE <<W_A, S_LAYERED>>, <<2, 2>>, hint,
            <<Ctl(v1, fac), Ctl(v2, ~fac)>>,
            <<Body(v1, <<<<N_10, N_20>>>>), Body(v2, <<<<N_20, N_10>>>>)>>) :
      v1 \in Variants, v2 \in Variants, hint \in BOOLEAN, fac \in BOOLEAN }

\* inputs that are malformed or unusual
OddInputs ==
    { \* an unrecognised control-line keyword
      Input(<<W_A>>, <<2>>, FALSE, <<<<W_BOGUS, N_10>>>>, <<<<>>>>),
      \* a print-control pair before the keyword
      Input(<<W_A>>, <<2>>, FALSE, <<<<S_IPRN, N_1, S_CONSTANT, N_10>>>>, <<<<>>>>),
      \* a print-control pair before an unrecognised keyword
      Input(<<W_A>>, <<2>>, FALSE, <<<<S_IPRN, N_1, W_BOGUS, N_10>>>>, <<<<>>>>),
      \* a print-control pair after the keyword and its value
      Input(<<W_A>>, <<2>>, FALSE, <<<<S_CONSTANT, N_20, S_IPRN, N_1>>>>, <<<<>>>>),
      \* a body of one value for a shape of two
      Input(<<W_A>>, <<2>>, FALSE, <<<<S_INTERNAL>>>>, <<<<<<N_10>>>>>>),
      \* a body of two rows
      Input(<<W_A>>, <<2, 2>>, FALSE, <<<<S_INTERNAL>>>>,
            <<<<<<N_10, N_20>>, <<N_20, N_05>>>>>>),
      \* an external file that does not exist
      Input(<<W_A>>, <<2>>, FALSE, <<<<S_EXTERNAL, W_NOFILE>>>>, <<<<>>>>),
      \* a layered array whose second control line is unrecognised
      Input(<<W_A, S_LAYERED>>, <<2, 2>>, FALSE,
            <<<<S_CONSTANT, N_10>>, <<W_BOGUS>>>>, <<<<>>, <<>>>>),
      \* a layered array with one layer in the file
      Input(<<W_A, S_LAYERED>>, <<2, 2>>, FALSE, <<<<S_CONSTANT, N_10>>>>, <<<<>>>>),
      \* a layered array whose first layer has one value for a row of two
      Input(<<W_A, S_LAYERED>>, <<2, 2>>, FALSE,
            <<<<S_INTERNAL>>, <<S_CONSTANT, N_20>>>>, <<<<<<N_10>>>>, <<>>>>) }

Inputs == PlainInputs \cup LayeredInputs \cup OddInputs

\* the pieces package files are made of
Blk(name, index, params) ==
    Line(<<>>, <<S_BEGIN, name>> \o index) \o Lines(PAD, params)
    \o Line(<<>>, <<S_END, name>>)

W_FIRST == <<"F","I","R","S","T">>
W_FREQUENCY == <<"F","R","E","Q","U","E","N","C","Y">>

Pieces ==
    { Blk(W_PERIOD, <<N_1>>, <<<<W_FIRST>>>>),
      Blk(W_PERIOD, <<<<"2">>>>, <<<<W_FIRST>>, <<W_FREQUENCY, <<"2">>>>>>),
      Blk(W_OPTIONS, <<>>, <<<<W_FIRST>>>>),
      Blk(W_NOTES, <<>>, <<<<W_BOGUS>>>>),
      <<NL>>,
      <<" ", NL>> }

\* the most pieces a package file is made of
MaxPieces == 3

\* the attribute names of a package class body, and the most it declares
W_TEST == <<"T","e","s","t","P","a","c","k","a","g","e">>
AttrNames == {<<"k">>, <<"i">>, <<"d">>, <<"s">>, <<"a">>}
MaxAttrs == 4

\* every file of at most MaxPieces pieces
Files == UNION { { Flatten(s) : s \in [1..n -> Pieces] } : n \in 1..MaxPieces }

\* the lines of the streams read_array is called on: values, values after
\* indentation, with a comment, with a comma, a negative value, an empty
\* line and a keyword
BodyLines ==
    { <<"1", ".", "0">>,
      <<" ", "2", ".", " ", "3">>,
      <<"1", " ", "#", " ", "c">>,
      <<"1", ",", "2">>,
      <<"-", "1">>,
      <<>>,
      <<"E", "N", "D">> }

\* the most lines a stream read_array is called on has
MaxLines == 3

\* every stream of at most MaxLines lines, the last with or without its
\* newline
Streams ==
    UNION { UNION { { Join(<<NL>>, ls), Join(<<NL>>, ls) \o <<NL>> } :
                    ls \in [1..n -> BodyLines] } : n \in 1..MaxLines }

\* the positions of a text at which a line starts, and its end
LineStarts(text) ==
    {1, Len(text) + 1} \cup { i + 1 : i \in { j \in 1..Len(text) : text[j] = NL } }

\* the turn of read_array's loop at every position of every stream, as an
\* explicit table (@@ <<>> makes TLC build the function once)
Turns == [text \in Streams |-> [pos \in LineStarts(text) |-> Turn(text, pos)] @@ <<>>] @@ <<>>

\* every value the local astr of read_array can take on these streams
Runs ==
    UNION { [1..n -> { line_strip(l) : l \in { b \in BodyLines :
                                                 NumericLine(line_strip(b)) } }] :
            n \in 0..MaxLines }

\* np.genfromtxt(StringIO(" ".join(astr))).ravel() for every such astr
Ravel == [astr \in Runs |-> genfromtxt(split(Join(<<" ">>, astr))) @@ <<>>] @@ <<>>

----------------------------------------------------------------------------
(* The state machine.                                                      *)

Init ==
    /\ arr = None
    /\ src = [by |-> "none", in |-> None]
    /\ err = ""
    /\ last = [op |-> "init", arg |-> None, before |-> None, res |-> None]
    /\ steps = 0
    /\ out = None
    /\ back = None
    /\ fin = None
    /\ blocks = [n \in {} |-> None]
    /\ made = <<>>
    /\ pkg = None
    /\ ppc = "idle"
    /\ calls = <<>>
    /\ rd = None
    /\ body = <<>>
    /\ klass = None

Fresh == src.by = "none" /\ ppc = "idle" /\ rd = None /\ body = <<>>
Live == arr # None /\ steps < MaxSteps

RECURSIVE AllSmall(_)
\* every float the array stores is within MaxMag
AllSmall(a) ==
    IF a.value = None THEN TRUE
    ELSE IF a.value.t = "scalar" THEN Small(a.value.s)
    ELSE IF a.value.t = "buffer"
    THEN \A i \in 1..Len(a.value.b) : Small(a.value.b[i])
    ELSE \A i \in 1..Len(a.value.l) : AllSmall(a.value.l[i])

Codec == <<out, back>>
Package == <<fin, blocks, made, pkg, ppc, calls>>
Meta == <<body, klass>>
Array == <<arr, src, err, last, steps>>

\* MFArray(shape): a parameter declared without data
Declare ==
    /\ Fresh
    /\ \E shape \in {<<2>>, <<2, 2>>} :
         arr' = MFArray(shape, None, internal, None, None, Some(W_A), FALSE)
    /\ src' = [by |-> "declare", in |-> None]
    /\ last' = [op |-> "declare", arg |-> None, before |-> None, res |-> None]
    /\ err' = ""
    /\ UNCHANGED <<steps, Codec, Package, rd, Meta>>

\* MFArray(shape, array=..., how=..., factor=...) for an array of S
ConstructFrom(S) ==
    /\ Fresh
    /\ \E a \in S : arr' = a
    /\ src' = [by |-> "construct", in |-> None]
    /\ last' = [op |-> "construct", arg |-> None, before |-> None, res |-> None]
    /\ err' = ""
    /\ UNCHANGED <<steps, Codec, Package, rd, Meta>>

Construct == ConstructFrom(Arrays)
ConstructAny == ConstructFrom(AnyArrays)

\* MFArray.load(f, cwd, shape, layered=hint) on an input text
LoadArray ==
    /\ Fresh
    /\ \E in \in Inputs :
         /\ src' = [by |-> "load", in |-> in]
         /\ \E r \in {load(in.text, 1, in.shape, in.hint)} :
              /\ arr' = r.a
              /\ err' = r.err
    /\ last' = [op |-> "load", arg |-> None, before |-> None, res |-> None]
    /\ UNCHANGED <<steps, Codec, Package, rd, Meta>>

\* x = a.value
GetValue ==
    /\ arr # None
    /\ \E r \in {value(arr)} :
         /\ last' = [op |-> "value", arg |-> None, before |-> arr, res |-> r]
         /\ err' = r.err
    /\ UNCHANGED <<arr, src, steps, Codec, Package, rd, Meta>>

\* a.value = v, for None, an ndarray of the array's shape and one of
\* another shape
SetValue ==
    /\ Live
    /\ \E v \in {None,
                 [shape |-> arr.shape,
                  data  |-> [i \in 1..Prod(arr.shape) |-> Q(i)]],
                 [shape |-> <<1>>, data |-> <<Q(1)>>]} :
         /\ last' = [op |-> "setvalue", arg |-> v, before |-> arr, res |-> None]
         /\ \E r \in {value_setter(arr, v)} :
              /\ arr' = r.a
              /\ err' = r.err
    /\ steps' = steps + 1
    /\ UNCHANGED <<src, Codec, Package, rd, Meta>>

\* a[key] = val
SetItem ==
    /\ Live
    /\ \E key \in {[k |-> "all"], [k |-> "index", i |-> 0], [k |-> "index", i |-> 1]},
          val \in {Scalar(Q(1)), Scalar(Q(2)), Scalar(Near)} :
         /\ last' = [op |-> "setitem", arg |-> [key |-> key, val |-> val],
                     before |-> arr, res |-> None]
         /\ \E r \in {__setitem__(arr, key, val)} :
              /\ arr' = r.a
              /\ err' = r.err
    /\ steps' = steps + 1
    /\ UNCHANGED <<src, Codec, Package, rd, Meta>>

\* a <op>= other
IOp(op) ==
    /\ Live
    /\ AllSmall(arr)
    /\ \E other \in Others :
         /\ last' = [op |-> op, arg |-> other, before |-> arr, res |-> None]
         /\ \E r \in {iop(arr, op, other)} :
              /\ arr' = r.a
              /\ err' = r.err
    /\ steps' = steps + 1
    /\ UNCHANGED <<src, Codec, Package, rd, Meta>>

__iadd__ == IOp("__iadd__")
__imul__ == IOp("__imul__")
__isub__ == IOp("__isub__")
__itruediv__ == IOp("__itruediv__")
__ifloordiv__ == IOp("__ifloordiv__")
__ipow__ == IOp("__ipow__")

\* a <op> other, for the six binary operators
BinaryOp ==
    /\ Live
    /\ AllSmall(arr)
    /\ \E op \in {"__add__", "__mul__", "__sub__", "__truediv__", "__floordiv__",
                  "__pow__"} :
       \E other \in Others :
         \E r \in {binop(arr, op, other)} :
           /\ last' = [op |-> op, arg |-> other, before |-> arr, res |-> r.res]
           /\ arr' = r.a
           /\ err' = r.err
    /\ steps' = steps + 1
    /\ UNCHANGED <<src, Codec, Package, rd, Meta>>

\* a.write(f) on an empty sink
Write ==
    /\ arr # None
    /\ out = None
    /\ out' = write(arr)
    /\ UNCHANGED <<back, Array, Package, rd, Meta>>

\* MFArray.load(f, cwd, a.shape) on the text a.write(f) wrote
LoadBack ==
    /\ out # None
    /\ out.err = ""
    /\ back = None
    /\ \E r \in {load(out.text, 1, arr.shape, FALSE)} :
         back' = [err |-> r.err, a |-> r.a]
    /\ UNCHANGED <<out, Array, Package, rd, Meta>>

\* open(fpth) before MFPackage.load(f)
Open ==
    /\ Fresh
    /\ \E text \in Files : fin' = [text |-> text, pos |-> 1]
    /\ ppc' = "scan"
    /\ UNCHANGED <<blocks, made, pkg, calls, Array, Codec, rd, Meta>>

\* MFPackage.load: one turn of the while loop that ends with break
Break ==
    /\ ppc = "scan"
    /\ readline(fin.text, fin.pos).line = <<>>
    /\ ppc' = "return"
    /\ UNCHANGED <<fin, blocks, made, pkg, calls, Array, Codec, rd, Meta>>

\* MFPackage.load: one turn of the while loop on a line that is not ""
Scan ==
    /\ ppc = "scan"
    /\ \E r \in {readline(fin.text, fin.pos)} :
         /\ r.line # <<>>
         /\ IF r.line = <<NL>>
            THEN /\ fin' = [fin EXCEPT !.pos = r.pos]
                 /\ UNCHANGED <<blocks, made, ppc, calls>>
            ELSE \E w \in {Words(fin.text, fin.pos, r.pos,
                                 split(lower(utils_strip(r.line))), blocks, made)} :
                   /\ fin' = [fin EXCEPT !.pos = w.pos]
                   /\ blocks' = w.blocks
                   /\ made' = w.made
                   /\ calls' = IF w.call = None THEN calls
                               ELSE Append(calls, w.call)
                   /\ ppc' = IF w.err # "" THEN "error" ELSE "scan"
    /\ UNCHANGED <<pkg, Array, Codec, rd, Meta>>

\* MFPackage.load: pkg = cls(); pkg.update(blocks); return pkg
Return ==
    /\ ppc = "return"
    /\ pkg' = blocks
    /\ ppc' = "done"
    /\ UNCHANGED <<fin, blocks, made, calls, Array, Codec, rd, Meta>>

\* one more attribute in the body of a package class: a parameter of a
\* block, or an attribute that is no parameter
Attribute ==
    /\ src.by = "none" /\ ppc = "idle" /\ rd = None
    /\ klass = None
    /\ Len(body) < MaxAttrs
    /\ \E n \in AttrNames \ { body[i].attr_name : i \in 1..Len(body) } :
       \E a \in { MFParam(b) : b \in members } \cup {[param |-> FALSE]} :
         body' = Append(body, [attr_name |-> n, attr |-> a])
    /\ UNCHANGED <<klass, Array, Codec, Package, rd>>

\* the class statement ends: MFPackageMeta.__new__ makes the class
NewClass ==
    /\ klass = None
    /\ body # <<>>
    /\ klass' = PackageClass(W_TEST, body)
    /\ UNCHANGED <<body, Array, Codec, Package, rd>>

\* read_array(f) is called with f at the start of a line or at its end
ReadBegin ==
    /\ Fresh
    /\ rd = None
    /\ \E text \in Streams : \E start \in LineStarts(text) :
         rd' = [text |-> text, start |-> start, pos |-> start, astr |-> <<>>,
                array |-> None, pc |-> "loop"]
    /\ UNCHANGED <<Array, Codec, Package, Meta>>

\* read_array: a turn of the loop on a line that matches
ReadTurn ==
    /\ rd # None
    /\ rd.pc = "loop"
    /\ \E k \in {Turns[rd.text][rd.pos]} :
         /\ k.match
         /\ rd' = [rd EXCEPT !.pos = k.pos, !.astr = Append(rd.astr, k.line)]
    /\ UNCHANGED <<Array, Codec, Package, Meta>>

\* read_array: the turn of the loop on a line that does not match, which
\* ends it, and the return of np.genfromtxt(...).ravel()
ReadBreak ==
    /\ rd # None
    /\ rd.pc = "loop"
    /\ \E k \in {Turns[rd.text][rd.pos]} :
         /\ ~k.match
         /\ rd' = [rd EXCEPT !.pos = k.pos,
                             !.array = Buffer(Ravel[rd.astr]),
                             !.pc = "done"]
    /\ UNCHANGED <<Array, Codec, Package, Meta>>

\* the life of one array: construction or load, then reads and mutations
Next ==
    \/ Declare
    \/ Construct
    \/ LoadArray
    \/ GetValue
    \/ SetValue
    \/ SetItem
    \/ __iadd__
    \/ __imul__
    \/ __isub__
    \/ __itruediv__
    \/ __ifloordiv__
    \/ __ipow__

Spec == Init /\ [][Next]_vars

\* an array constructed or loaded, written, and the text loaded again
NextCodec ==
    \/ ConstructAny
    \/ LoadArray
    \/ Write
    \/ LoadBack

SpecCodec == Init /\ [][NextCodec]_vars

\* MFPackage.load on a file
NextPackage ==
    \/ Open
    \/ Scan
    \/ Break
    \/ Return

SpecPackage == Init /\ [][NextPackage]_vars

\* read_array on a stream
NextRead ==
    \/ ReadBegin
    \/ ReadTurn
    \/ ReadBreak

\* the call is a blocking one on a single thread: once made, it keeps running
SpecRead == Init /\ [][NextRead]_vars /\ WF_vars(ReadTurn \/ ReadBreak)

NextMeta ==
    \/ Attribute
    \/ NewClass

\* a package class is declared
SpecMeta == Init /\ [][NextMeta]_vars

NextBinary ==
    \/ Construct
    \/ LoadArray
    \/ BinaryOp

\* an array constructed or loaded, then operand of binary expressions
SpecBinary == Init /\ [][NextBinary]_vars

----------------------------------------------------------------------------
(* The properties.                                                         *)

IOps == {"__iadd__", "__imul__", "__isub__", "__itruediv__", "__ifloordiv__",
         "__ipow__"}

\* an array that was constructed and is neither layered nor External
Built == src.by = "construct" /\ ~arr.layered /\ arr.how \in {internal, constant}

\* C1: an Internal or Constant array that is not layered, built from valid
\* data, is written without error, and loading the written text with the
\* same shape succeeds and gives an array with the same variant tag, the
\* same raw values and the same factor.
C1_RoundTrip ==
    /\ (Built /\ out # None) => out.err = ""
    /\ (Built /\ back # None) =>
         /\ back.err = ""
         /\ back.a.how = arr.how
         /\ raw(back.a) = raw(arr)
         /\ factor(back.a) = factor(arr)

RECURSIVE ControlLines(_, _)
\* the words of every line of a text, from pos on, whose first word is
\* INTERNAL, CONSTANT or OPEN/CLOSE
ControlLines(text, pos) ==
    IF pos > Len(text) THEN <<>>
    ELSE LET r == readline(text, pos)
             w == split(r.line)
         IN  (IF w # <<>> /\ upper(w[1]) \in Variants THEN <<w>> ELSE <<>>)
             \o ControlLines(text, r.pos)

\* the float after the word FACTOR of a control line, or None
FactorOf(words) ==
    LET i == TokIndex([k \in 1..Len(words) |-> upper(words[k])], S_FACTOR)
    IN  IF i = 0 \/ i = Len(words) THEN None ELSE ParseFloat(words[i + 1]).v

\* a well-formed input was loaded and the array written
LoadedWritten ==
    /\ src.by = "load"
    /\ src.in \in PlainInputs \cup LayeredInputs
    /\ out # None

\* C2: an array loaded from control lines that select a variant and end
\* with FACTOR f is written with, for the array or for each of its layers,
\* a control line of the same variant and, where f was given, FACTOR f.
C2_LoadWriteKeepsFactor ==
    LoadedWritten =>
      /\ out.err = ""
      /\ Len(ControlLines(out.text, 1)) = Len(src.in.ctl)
      /\ \A k \in 1..Len(src.in.ctl) :
           /\ upper(ControlLines(out.text, 1)[k][1]) = upper(src.in.ctl[k][1])
           /\ FactorOf(src.in.ctl[k]) # None =>
                FactorOf(ControlLines(out.text, 1)[k]) = FactorOf(src.in.ctl[k])

\* an index assignment on a Constant array that is not layered was made
SetOnConstant ==
    /\ last.op = "setitem"
    /\ err = ""
    /\ ~last.before.layered
    /\ last.before.how = constant

\* the flat elements the array has after that assignment
Assigned ==
    Assign(last.before.shape, raw1(last.before).data, last.arg.key,
           last.arg.val).data

AllEqual(values) == \A i \in 1..Len(values) : values[i] = values[1]

\* an array that is not layered and was Internal before the last operation
\* still answers Internal to how()
StaysInternal ==
    (last.before # None /\ ~last.before.layered /\ last.before.how = internal)
      => how(arr) = internal

\* C3 as the specification states it: after an index assignment on a
\* Constant array, elements that are all equal leave it Constant with a
\* single scalar, and elements that are not all equal make it Internal with
\* the full buffer, which how() reports from then on.
C3_CollapseEqual ==
    /\ SetOnConstant =>
         IF AllEqual(Assigned)
         THEN arr.how = constant /\ arr.value = Scalar(Assigned[1])
         ELSE arr.how = internal /\ arr.value = Buffer(Assigned)
              /\ how(arr) = internal
    /\ StaysInternal

\* C3, amended: after an index assignment on a Constant array, elements that
\* are all within numpy.allclose's tolerance (rtol 1e-05, atol 1e-08) of the
\* first element leave it Constant with the first element as its single
\* scalar; otherwise it becomes Internal with the full buffer, which how()
\* reports from then on.
C3_CollapseClose ==
    /\ SetOnConstant =>
         IF allclose(Assigned, Assigned[1])
         THEN arr.how = constant /\ arr.value = Scalar(Assigned[1])
              /\ how(arr) = constant
         ELSE arr.how = internal /\ arr.value = Buffer(Assigned)
              /\ how(arr) = internal
    /\ StaysInternal

\* an assignment left unequal elements and the array Constant
C3_Witness ==
    /\ SetOnConstant
    /\ ~AllEqual(Assigned)
    /\ arr.how = constant
    /\ arr.value.t = "scalar"

\* value() agrees with raw() and the factor f: it raises what raw() raises,
\* or returns raw()'s array with every element multiplied by f
Agree(v, r, f) ==
    IF r.err # "" THEN v.err = r.err
    ELSE /\ v.err = ""
         /\ ~v.none
         /\ v.shape = r.shape
         /\ v.data = [i \in 1..Len(r.data) |-> Mul(r.data[i], f)]

\* a call of value() on an array that is not layered changed nothing, and
\* another call returns the same
ValueIsPure ==
    (last.op = "value" /\ ~arr.layered) =>
      /\ arr = last.before
      /\ value(arr) = last.res

TwoIndexed ==
    /\ ppc = "done"
    /\ \E i \in 1..(Len(made) - 1) :
         /\ made[i].name = made[i + 1].name
         /\ made[i].index = Index(1)
         /\ made[i + 1].index = Index(2)

\* C5: when the stream holds two successive blocks of one name with the
\* indices 1 and 2, the package MFPackage.load returns holds every block
\* that was loaded: neither occurrence replaces the other.
C5_BothHeld ==
    TwoIndexed => \A i \in 1..Len(made) : \E n \in DOMAIN pkg : pkg[n] = made[i]

\* C6: an array loaded as layered with shape (L, ...) owns L layers of shape
\* shape[1:]; value() of each layer has that shape, value() of the array
\* has outer length L, and how() and factor() are lists of length L.
C6_Layered ==
    (last.op = "load" /\ arr # None /\ arr.layered) =>
      /\ Len(arr.value.l) = Head(arr.shape)
      /\ \A k \in 1..Len(arr.value.l) :
           /\ arr.value.l[k].shape = Tail(arr.shape)
           /\ value1(arr.value.l[k]).err = ""
           /\ value1(arr.value.l[k]).shape = Tail(arr.shape)
           /\ Len(value1(arr.value.l[k]).data) = Prod(Tail(arr.shape))
      /\ value(arr).err = ""
      /\ Head(value(arr).shape) = Head(arr.shape)
      /\ Len(how(arr)) = Head(arr.shape)
      /\ Len(factor(arr)) = Head(arr.shape)

\* C7: after a load and any operations, an Internal or External array that
\* is not layered stores a buffer of product(shape) elements.
C7_BufferLength ==
    (src.by = "load" /\ arr # None /\ ~arr.layered
     /\ arr.how \in {internal, external}) =>
      /\ arr.value # None
      /\ arr.value.t = "buffer"
      /\ Len(arr.value.b) = Prod(arr.shape)

\* what an array has populated
HasScalar(a) == a.value # None /\ a.value.t = "scalar"
HasBuffer(a) == a.value # None /\ a.value.t = "buffer"
HasLayers(a) == a.value # None /\ a.value.t = "layers"
HasPath(a) == a.path # None

\* C8: in every state exactly one of scalar, buffer, path and layer sequence
\* is populated: the layer sequence when layered, else the scalar when
\* Constant, the buffer when Internal, the path when External.
C8_Exclusive ==
    arr # None =>
      /\ HasLayers(arr) <=> arr.layered
      /\ HasScalar(arr) <=> (~arr.layered /\ arr.how = constant)
      /\ HasBuffer(arr) <=> (~arr.layered /\ arr.how = internal)
      /\ HasPath(arr) <=> (~arr.layered /\ arr.how = external)

Recognised(words) == words # <<>> /\ upper(words[1]) \in Variants

\* a control line without its print-control pair
Keyed(words) ==
    LET i == TokIndex([k \in 1..Len(words) |-> upper(words[k])], S_IPRN)
    IN  IF i = 0 THEN words ELSE Pop(Pop(words, i + 1), i)

NoArray == arr = None /\ err # ""

\* C9 as the specification states it: a control line whose first token is
\* none of INTERNAL, CONSTANT and OPEN/CLOSE, in any case of the letters and
\* on any layer, makes the load fail and return no array.
C9_FirstTokenFails ==
    (src.by = "load"
     /\ \E k \in 1..Len(src.in.ctl) : ~Recognised(src.in.ctl[k])) => NoArray

\* C9, amended: a control line whose first token, once a print-control pair
\* IPRN <n> is removed from the line, is none of INTERNAL, CONSTANT and
\* OPEN/CLOSE, in any case of the letters and on any layer, makes the load
\* fail and return no array.
C9_KeyTokenFails ==
    (src.by = "load"
     /\ \E k \in 1..Len(src.in.ctl) : ~Recognised(Keyed(src.in.ctl[k]))) => NoArray

\* a layered load failed on the unrecognised control line of its second layer
C9_Witness ==
    /\ src.by = "load"
    /\ Len(src.in.ctl) = 2
    /\ Recognised(src.in.ctl[1])
    /\ ~Recognised(Keyed(src.in.ctl[2]))
    /\ arr = None
    /\ err = "NotImplementedError"

\* C10: an in-place operator applied to a layered array leaves each layer
\* with the raw values the same operator gives an array that is not layered
\* and holds that layer's data.
C10_LayeredOps ==
    (last.op \in IOps /\ err = "" /\ last.before.layered
     /\ HasLayers(last.before)) =>
      \A k \in 1..Len(arr.value.l) :
        raw1(arr.value.l[k]) = raw1(iop(last.before.value.l[k], last.op, last.arg).a)

RECURSIVE After(_, _, _)
\* the position of a stream k lines after pos
After(text, pos, k) ==
    IF k = 0 THEN pos ELSE After(text, readline(text, pos).pos, k - 1)

\* line i (from 1) of the stream from where read_array was called; the
\* empty string past the end of the stream
LineAt(i) == readline(rd.text, After(rd.text, rd.start, i - 1)).line

\* a line that holds digits, dots and spaces only, and one of them at least
NumericOnly(line) == NumericLine(IF line # <<>> /\ line[Len(line)] = NL
                                 THEN SubSeq(line, 1, Len(line) - 1) ELSE line)

\* a line that holds digits, dots and spaces only, and one of them at least,
\* once its comment is dropped, what is left stripped, and commas made spaces
NumericStripped(line) == NumericLine(line_strip(line))

ReadCalled == rd # None
ReadDone == rd # None /\ rd.pc = "done"

\* read_array consumed the maximal run of lines that satisfy Numeric from
\* where it was called, left the stream at the start of the line after the
\* run (the first line that fails, or the end of the stream), and returned
\* the floats of the run
Consumed(Numeric(_)) ==
    /\ \A i \in 1..Len(rd.astr) : Numeric(LineAt(i))
    /\ ~Numeric(LineAt(Len(rd.astr) + 1))
    /\ rd.pos = After(rd.text, rd.start, Len(rd.astr))
    /\ rd.pos \in LineStarts(rd.text)
    /\ readline(rd.text, rd.pos).line = LineAt(Len(rd.astr) + 1)
    /\ rd.array = Buffer(genfromtxt(split(Join(<<" ">>,
                     [i \in 1..Len(rd.astr) |-> line_strip(LineAt(i))]))))
    /\ [array |-> rd.array.b, pos |-> rd.pos] = read_array(rd.text, rd.start)

\* C11 as the specification states it: read_array returns on every finite
\* stream, having consumed exactly the maximal run of lines that are
\* numeric-only as they stand, and leaves the stream at the start of the
\* first line that is not (or at the end of the stream).
C11_NumericOnlyRun ==
    /\ [](ReadDone => Consumed(NumericOnly))
    /\ (ReadCalled ~> ReadDone)

\* C11, amended: read_array returns on every finite stream, having consumed
\* exactly the maximal run of lines that are numeric-only once line_strip
\* has dropped their comment, stripped them and made their commas spaces,
\* and leaves the stream at the start of the first line that is not (or at
\* the end of the stream), so the caller reads that line next.
C11_LookAhead ==
    /\ [](ReadDone => Consumed(NumericStripped))
    /\ (ReadCalled ~> ReadDone)

\* read_array returned after a run that ended before a line of the stream,
\* having consumed a line with a comment or a comma
C11_Witness ==
    /\ ReadDone
    /\ rd.pos <= Len(rd.text)
    /\ rd.pos > rd.start
    /\ \E i \in 1..Len(rd.astr) : ~NumericOnly(LineAt(i))

\* the words MFPackage.load takes from a line
ScanWords(line) == split(lower(utils_strip(line)))

\* a BEGIN line whose block name the package declares
DeclaredBegin(line) ==
    /\ Len(ScanWords(line)) >= 2
    /\ ScanWords(line)[1] = lower(S_BEGIN)
    /\ ScanWords(line)[2] \in members

\* one turn of the scan on a line of the stream: a block loader is called
\* for a BEGIN line of a declared block, with the stream at the start of
\* that line, and any other line is skipped
ScanTurn ==
    LET r == readline(fin.text, fin.pos) IN
      (ppc = "scan" /\ r.line # <<>>) =>
        IF DeclaredBegin(r.line)
        THEN calls' = Append(calls, [at |-> fin.pos, name |-> ScanWords(r.line)[2]])
        ELSE /\ calls' = calls
             /\ blocks' = blocks
             /\ ppc' = "scan"
             /\ fin'.pos = r.pos

\* C12: MFPackage.load over a finite stream calls a block loader only for a
\* BEGIN line whose block name the package declares, the stream being at
\* the start of that line at the call; every other line is skipped without
\* a call; every turn of the scan moves the stream forward and the scan
\* ends only at the end of the stream; the package returned holds only
\* declared block names.
C12_Dispatch ==
    /\ [][ScanTurn]_vars
    /\ [][(ppc = "scan" /\ ppc' = "scan") => fin'.pos > fin.pos]_vars
    /\ [][(ppc = "scan" /\ ppc' # "scan")
           => (ppc' = "return" /\ fin.pos > Len(fin.text))]_vars
    /\ [](ppc = "done" => DOMAIN pkg \subseteq members)

\* the names of the parameters the class body declares
Declared == { body[i].attr_name : i \in { j \in 1..Len(body) : body[j].attr.param } }

\* C13: whatever the order of the declarations of a package class, every
\* declared parameter p is among the parameters of the block named p.block,
\* and the parameters of the blocks together are the declared parameters.
C13_EveryParamInItsBlock ==
    klass # None =>
      /\ \A i \in 1..Len(body) :
           body[i].attr.param =>
             /\ body[i].attr.block \in DOMAIN klass.blocks
             /\ body[i].attr_name \in DOMAIN klass.blocks[body[i].attr.block].params
      /\ UNION { DOMAIN klass.blocks[b].params : b \in DOMAIN klass.blocks } = Declared
      /\ DOMAIN klass.params = Declared

\* the same, for a class body that declares the parameters of each block
\* one after the other
C13_Grouped ==
    (/\ klass # None
     /\ \A i, j, k \in 1..Len(Harvest(body, <<>>)) :
          (i < j /\ j < k /\ Harvest(body, <<>>)[i].block = Harvest(body, <<>>)[k].block)
            => Harvest(body, <<>>)[j].block = Harvest(body, <<>>)[i].block)
    => /\ UNION { DOMAIN klass.blocks[b].params : b \in DOMAIN klass.blocks } = Declared
       /\ \A b \in DOMAIN klass.blocks : \A n \in DOMAIN klass.blocks[b].params :
            klass.blocks[b].params[n].block = b

BinaryOps == {"__add__", "__mul__", "__sub__", "__truediv__", "__floordiv__",
              "__pow__"}

\* C14: evaluating a + b, a - b, a * b, a / b, a // b or a ** b on an
\* MFArray a, layered or not, leaves the data a stores, its variant tag and
\* its factor as they were.
C14_OperandKept ==
    last.op \in BinaryOps =>
      /\ arr.value = last.before.value
      /\ arr.how = last.before.how
      /\ arr.factor = last.before.factor

====
